---- MODULE Spec2Model ----
(***************************************************************************)
(* White Bear editor: the directory loader (Tools/DirectoryLoader.py) and  *)
(* the SEO self test of an image (Tools/Document/BaseImage.py).            *)
(*                                                                         *)
(* Spec      : a DirectoryLoader on which load_directory is called any     *)
(*             number of times; one call is the gate followed by one step  *)
(*             per file that glob enumerates, in any order.                *)
(* SpecImage : a BaseImage whose title and alt are edited and re-tested.   *)
(***************************************************************************)
EXTENDS Integers, Sequences, FiniteSets, TLC

VARIABLES
    \* DirectoryLoader fields
    _directory_path, _article_documents, _menu_documents, _index_document,
    \* the running load_directory call
    pc, error, dir_mode, listing, todo,
    \* history of the running call
    created, access_ok, parsed, enumerated, loads,
    \* BaseImage fields
    _link_title, _link_title_error_message, _image_alt, _image_alt_error_message,
    _status_color,
    \* history of seo_test_self calls
    result, prev_result, tested

loader_vars == <<_directory_path, _article_documents, _menu_documents, _index_document,
                 pc, error, dir_mode, listing, todo, created, access_ok, parsed,
                 enumerated, loads>>

image_vars == <<_link_title, _link_title_error_message, _image_alt,
                _image_alt_error_message, _status_color, result, prev_result, tested>>

vars == <<loader_vars, image_vars>>

(***************************************************************************)
(* Values                                                                  *)
(***************************************************************************)

\* Python's None
None == [none |-> TRUE]

\* The empty dict / a dict as a function from keys to values
EmptyDict == [k \in {} |-> None]

\* d[key] = value
DictSet(d, key, value) == [k \in (DOMAIN d) \cup {key} |-> IF k = key THEN value ELSE d[k]]

\* File names are sequences of name parts; the last part is the extension.
IndexName == <<"index", ".html">>

ArticleName == <<"a", ".html">>

GoogleName == <<"google", ".html">>

NotFoundName == <<"404", ".html">>

FileNames == {IndexName, ArticleName, GoogleName, NotFoundName}

\* The one directory path the caller hands to load_directory
Paths == {"/web"}

\* 'marker' in filename
Contains(filename, marker) == \E i \in 1..Len(filename) : filename[i] = marker

\* os.path.basename / os.path.realpath / os.path.join of a file of the directory
Basename(path, filename) == filename

Realpath(path, filename) == <<path, filename>>

\* What is on disk under one name: nothing, or an entry with its permission
\* bits, whether lxml can parse it and which schemas its tree validates against.
Absent == [present |-> FALSE]

Entry(isfile, r, w, parses, a, m, i) ==
    [present |-> TRUE, isfile |-> isfile, r |-> r, w |-> w, parses |-> parses,
     article |-> a, menu |-> m, index |-> i]

Html(a, m, i) == Entry(TRUE, TRUE, TRUE, TRUE, a, m, i)

Broken == Entry(TRUE, TRUE, TRUE, FALSE, FALSE, FALSE, FALSE)

SubDirectory == Entry(FALSE, TRUE, TRUE, FALSE, FALSE, FALSE, FALSE)

Unreadable == Entry(TRUE, FALSE, TRUE, TRUE, FALSE, FALSE, TRUE)

ReadOnly == Entry(TRUE, TRUE, FALSE, TRUE, TRUE, FALSE, FALSE)

\* The disk contents the model draws a directory from, per file name.
Kinds(name) ==
    IF name = IndexName
    THEN {Absent, Unreadable, Broken,
          Html(FALSE, FALSE, FALSE), Html(FALSE, FALSE, TRUE), Html(TRUE, FALSE, TRUE)}
    ELSE IF name = ArticleName
    THEN {Absent, Unreadable, ReadOnly, Broken, SubDirectory,
          Html(FALSE, FALSE, FALSE), Html(TRUE, FALSE, FALSE), Html(FALSE, TRUE, FALSE),
          Html(FALSE, FALSE, TRUE), Html(TRUE, TRUE, FALSE)}
    ELSE IF name = GoogleName
    THEN {Absent, Html(FALSE, FALSE, FALSE), Html(TRUE, FALSE, FALSE)}
    ELSE {Absent, Html(FALSE, FALSE, FALSE), Html(FALSE, TRUE, FALSE)}

Directories ==
    {[n \in FileNames |-> IF n = IndexName THEN i ELSE IF n = ArticleName THEN a
                          ELSE IF n = GoogleName THEN g ELSE e] :
        i \in Kinds(IndexName), a \in Kinds(ArticleName),
        g \in Kinds(GoogleName), e \in Kinds(NotFoundName)}

\* Permission bits of the directory itself
DirModes == {[r |-> TRUE, w |-> TRUE], [r |-> TRUE, w |-> FALSE]}

\* os.access(x, os.R_OK) and os.access(x, os.W_OK)
Access(x) == x.r /\ x.w

(***************************************************************************)
(* Exceptions                                                              *)
(***************************************************************************)
NoError == [kind |-> "", text |-> "", about |-> <<>>]

Raise(kind, text, about) == [kind |-> kind, text |-> text, about |-> about]

\* str(e) of lxml's XMLSyntaxError and str(schema.error_log): the parser's
\* output, which carries the name of the parsed file
ParserDiagnostic(filename) == filename

(***************************************************************************)
(* WhitebearDocument                                                       *)
(***************************************************************************)
TYPE_ARTICLE == "article"

TYPE_MENU == "menu"

TYPE_INDEX == "index"

\* No branch of the if / elif chain over the schemas was taken
NoRole == "none"

\* A reference to the loader's self._menu_documents dict object
MenuDictRef == [ref |-> "self._menu_documents"]

WhitebearDocument(filename, file_path, type, menus) ==
    [filename |-> filename, file_path |-> file_path, type |-> type, menus |-> menus]

\* The argument load passes to an article as its menus: the dict object itself
ArticleMenus(menu_documents) == MenuDictRef

\* What an article sees when it reads its menus now
MenusSeenBy(doc, menu_documents) ==
    IF doc.menus = MenuDictRef THEN menu_documents ELSE doc.menus.copy

(***************************************************************************)
(* DirectoryLoader                                                         *)
(***************************************************************************)

\* The accessors
get_directory == _directory_path

get_articles == _article_documents

get_menus == _menu_documents

get_index_page == _index_document

\* glob.glob(path + '/*.html')
Glob(d) == {n \in DOMAIN d : d[n].present /\ n[Len(n)] = ".html"}

\* html.parse can open the file
CanOpen(file) == file.isfile /\ file.r

\* The gate without its except clause: lxml's XMLSyntaxError reaches the caller
IsWhiteBearDirectory_SyntaxNotCaught(path, mode, d) ==
    IF ~Access(mode)
    THEN Raise("AccessException", "exception_access", <<>>)
    ELSE IF ~d[IndexName].present
    THEN Raise("FileNotFoundError", "exception_index", <<path>>)
    ELSE IF ~CanOpen(d[IndexName])
    THEN Raise("OSError", "error reading file", IndexName)
    ELSE IF ~d[IndexName].parses
    THEN Raise("XMLSyntaxError", "", ParserDiagnostic(IndexName))
    ELSE IF ~d[IndexName].index
    THEN Raise("IndexError", "exception_not_white_bear", ParserDiagnostic(IndexName))
    ELSE NoError

\* _is_white_bear_directory: NoError when it returns True, else what it raises
IsWhiteBearDirectory(path, mode, d) ==
    IF ~Access(mode)
    THEN Raise("AccessException", "exception_access", <<>>)
    ELSE IF ~d[IndexName].present
    THEN Raise("FileNotFoundError", "exception_index", <<path>>)
    ELSE IF ~CanOpen(d[IndexName])
    THEN Raise("OSError", "error reading file", IndexName)
    ELSE IF ~d[IndexName].parses
    THEN Raise("IndexError", "exception_html_syntax_error", ParserDiagnostic(IndexName))
    ELSE IF ~d[IndexName].index
    THEN Raise("IndexError", "exception_not_white_bear", ParserDiagnostic(IndexName))
    ELSE NoError

\* Files the gate hands to html.parse
GateParsed(mode, d) ==
    IF Access(mode) /\ d[IndexName].present THEN {IndexName} ELSE {}

\* The chain with the menu schema tested before the article schema
Classify_MenuFirst(file) ==
    IF file.menu THEN TYPE_MENU
    ELSE IF file.article THEN TYPE_ARTICLE
    ELSE IF file.index THEN TYPE_INDEX
    ELSE NoRole

\* The chain with the index schema tested first
Classify_IndexFirst(file) ==
    IF file.index THEN TYPE_INDEX
    ELSE IF file.article THEN TYPE_ARTICLE
    ELSE IF file.menu THEN TYPE_MENU
    ELSE NoRole

\* The if / elif chain over the three schemas
Classify(file) ==
    IF file.article THEN TYPE_ARTICLE
    ELSE IF file.menu THEN TYPE_MENU
    ELSE IF file.index THEN TYPE_INDEX
    ELSE NoRole

\* The skip test without its '404' half
Skipped_GoogleOnly(filename) == Contains(filename, "google")

\* Skip known non editable files
Skipped(filename) == Contains(filename, "google") \/ Contains(filename, "404")

\* The per file permission test of _prepare_documents
FileAccess(file) == Access(file)

\* The loop body without its except clause: lxml's XMLSyntaxError reaches the caller
StepError_SyntaxNotCaught(filename, file) ==
    IF ~file.isfile THEN NoError
    ELSE IF ~FileAccess(file)
    THEN Raise("AccessException", "exception_access_html", filename)
    ELSE IF ~file.parses
    THEN Raise("XMLSyntaxError", "", ParserDiagnostic(filename))
    ELSE IF Classify(file) = NoRole /\ ~Skipped(filename)
    THEN Raise("UnrecognizedFileException", "exception_file_unrecognized", filename)
    ELSE NoError

\* What one iteration of the loop raises for a file, NoError if nothing
StepError(filename, file) ==
    IF ~file.isfile THEN NoError
    ELSE IF ~FileAccess(file)
    THEN Raise("AccessException", "exception_access_html", filename)
    ELSE IF ~file.parses
    THEN Raise("UnrecognizedFileException", "exception_html_syntax_error",
               ParserDiagnostic(filename))
    ELSE IF Classify(file) = NoRole /\ ~Skipped(filename)
    THEN Raise("UnrecognizedFileException", "exception_file_unrecognized", filename)
    ELSE NoError

\* The role one iteration records the file under, NoRole if it records nothing
StepRole(filename, file) ==
    IF file.isfile /\ FileAccess(file) /\ file.parses THEN Classify(file) ELSE NoRole

(***************************************************************************)
(* BaseImage                                                               *)
(***************************************************************************)

\* Longest title or alt text the model edits
MaxStrLen == 4

Chars == {"x", "y"}

Texts == UNION {[1..n -> Chars] : n \in 0..MaxStrLen}

\* Numbers.article_image_title_min / _max, Numbers.article_image_alt_min / _max
article_image_title_min == 2

article_image_title_max == 3

article_image_alt_min == 2

article_image_alt_max == 3

\* Strings.label_article_image_link_title, Strings.label_article_image_alt
label_article_image_link_title == <<"x", "y">>

label_article_image_alt == <<"y">>

\* wx.NullColour, wx.RED
NullColour == "wx.NullColour"

RED == "wx.RED"

\* The link title check without the clearing of the old message
LinkTitleCheck_NotCleared(previous_message, title) ==
    LET after_length == IF Len(title) < article_image_title_min
                           \/ Len(title) > article_image_title_max
                        THEN "seo_error_link_title_length" ELSE previous_message
    IN IF title = label_article_image_link_title
       THEN "seo_error_default_value" ELSE after_length

\* Lines 42 to 55: the link title's error message after the test
LinkTitleCheck(previous_message, title) ==
    LET cleared == ""
        after_length == IF Len(title) < article_image_title_min
                           \/ Len(title) > article_image_title_max
                        THEN "seo_error_link_title_length" ELSE cleared
    IN IF title = label_article_image_link_title
       THEN "seo_error_default_value" ELSE after_length

\* Lines 43 and 57 to 65: the alt text's error message after the test
ImageAltCheck(previous_message, alt) ==
    LET cleared == ""
        after_length == IF Len(alt) < article_image_alt_min
                           \/ Len(alt) > article_image_alt_max
                        THEN "seo_error_image_alt_length" ELSE cleared
    IN IF alt = label_article_image_alt
       THEN "seo_error_default_value" ELSE after_length

\* Lines 46 to 65: result starts True and every failed check sets it False
SeoResult(title, alt) ==
    LET r0 == TRUE
        r1 == IF Len(title) < article_image_title_min
                 \/ Len(title) > article_image_title_max THEN FALSE ELSE r0
        r2 == IF title = label_article_image_link_title THEN FALSE ELSE r1
        r3 == IF Len(alt) < article_image_alt_min
                 \/ Len(alt) > article_image_alt_max THEN FALSE ELSE r2
        r4 == IF alt = label_article_image_alt THEN FALSE ELSE r3
    IN r4

\* Lines 44 and 67 to 68
StatusColor(previous_color, res) ==
    LET cleared == NullColour
    IN IF ~res THEN RED ELSE cleared

\* The value a call returned, as the history keeps it
Returned(res) == IF res THEN "True" ELSE "False"

\* BaseImage.__init__
BaseImageInit(title, image_alt) ==
    /\ _link_title = title
    /\ _link_title_error_message = ""
    /\ _image_alt = image_alt
    /\ _image_alt_error_message = ""
    /\ _status_color = "None"
    /\ result = "not called"
    /\ prev_result = "not called"
    /\ tested = FALSE

\* DirectoryLoader.__init__
LoaderInit ==
    /\ _directory_path = ""
    /\ _article_documents = EmptyDict
    /\ _menu_documents = EmptyDict
    /\ _index_document = None
    /\ pc = "idle"
    /\ error = NoError
    /\ dir_mode = [r |-> FALSE, w |-> FALSE]
    /\ listing = [n \in FileNames |-> Absent]
    /\ todo = {}
    /\ created = {}
    /\ access_ok = {}
    /\ parsed = {}
    /\ enumerated = {}
    /\ loads = "none"

Init == LoaderInit /\ BaseImageInit(<<>>, <<>>)

InitImage == LoaderInit /\ \E t \in Texts, a \in Texts : BaseImageInit(t, a)

\* BaseImage.seo_test_self
seo_test_self ==
    /\ _link_title_error_message' = LinkTitleCheck(_link_title_error_message, _link_title)
    /\ _image_alt_error_message' = ImageAltCheck(_image_alt_error_message, _image_alt)
    /\ result' = Returned(SeoResult(_link_title, _image_alt))
    /\ _status_color' = StatusColor(_status_color, SeoResult(_link_title, _image_alt))
    /\ prev_result' = result
    /\ tested' = TRUE
    /\ UNCHANGED <<_link_title, _image_alt>>
    /\ UNCHANGED loader_vars

\* The editor changes the link title of the image
set_link_title(title) ==
    /\ _link_title' = title
    /\ tested' = FALSE
    /\ UNCHANGED <<_link_title_error_message, _image_alt, _image_alt_error_message,
                   _status_color, result, prev_result>>
    /\ UNCHANGED loader_vars

\* The editor changes the alt text of the image
set_image_alt(alt) ==
    /\ _image_alt' = alt
    /\ tested' = FALSE
    /\ UNCHANGED <<_link_title, _link_title_error_message, _image_alt_error_message,
                   _status_color, result, prev_result>>
    /\ UNCHANGED loader_vars

NextImage ==
    \/ seo_test_self
    \/ \E t \in Texts : set_link_title(t)
    \/ \E a \in Texts : set_image_alt(a)

SpecImage == InitImage /\ [][NextImage]_vars

\* load_directory up to the end of _is_white_bear_directory
load_directory(directory_path, mode, d) ==
    /\ pc = "idle"
    /\ _directory_path' = directory_path
    /\ listing' = d
    /\ dir_mode' = mode
    /\ error' = IsWhiteBearDirectory(directory_path, mode, d)
    /\ pc' = IF error' = NoError THEN "loop" ELSE "raised"
    /\ todo' = IF error' = NoError THEN Glob(d) ELSE {}
    /\ created' = {}
    /\ enumerated' = {}
    /\ access_ok' = IF Access(mode) THEN {<<directory_path>>} ELSE {}
    /\ parsed' = GateParsed(mode, d)
    /\ loads' = IF loads = "none" THEN "first" ELSE "later"
    /\ UNCHANGED <<_article_documents, _menu_documents, _index_document>>
    /\ UNCHANGED image_vars

\* One iteration of the for loop of _prepare_documents, for the file glob yields next
prepare_documents_step(filename) ==
    /\ pc = "loop"
    /\ filename \in todo
    /\ LET file == listing[filename]
           role == StepRole(filename, file)
           doc == WhitebearDocument(Basename(_directory_path, filename),
                                    Realpath(_directory_path, filename), role,
                                    IF role = TYPE_ARTICLE
                                    THEN ArticleMenus(_menu_documents) ELSE None)
       IN /\ todo' = todo \ {filename}
          /\ enumerated' = enumerated \cup {filename}
          /\ error' = StepError(filename, file)
          /\ pc' = IF error' # NoError THEN "raised"
                   ELSE IF todo' = {} THEN "done" ELSE "loop"
          /\ access_ok' = IF file.isfile /\ FileAccess(file)
                          THEN access_ok \cup {filename} ELSE access_ok
          /\ parsed' = IF file.isfile /\ FileAccess(file)
                       THEN parsed \cup {filename} ELSE parsed
          /\ _article_documents' = IF role = TYPE_ARTICLE
                                   THEN DictSet(_article_documents, doc.filename, doc)
                                   ELSE _article_documents
          /\ _menu_documents' = IF role = TYPE_MENU
                                THEN DictSet(_menu_documents, doc.filename, doc)
                                ELSE _menu_documents
          /\ _index_document' = IF role = TYPE_INDEX THEN doc ELSE _index_document
          /\ created' = IF role # NoRole THEN created \cup {<<role, filename>>} ELSE created
    /\ UNCHANGED <<_directory_path, dir_mode, listing, loads>>
    /\ UNCHANGED image_vars

\* load_directory has returned or raised and the caller has the loader again
load_directory_returns ==
    /\ pc \in {"done", "raised"}
    /\ pc' = "idle"
    /\ error' = NoError
    /\ dir_mode' = [r |-> FALSE, w |-> FALSE]
    /\ listing' = [n \in FileNames |-> Absent]
    /\ todo' = {}
    /\ created' = {}
    /\ access_ok' = {}
    /\ parsed' = {}
    /\ enumerated' = {}
    /\ UNCHANGED <<_directory_path, _article_documents, _menu_documents, _index_document,
                   loads>>
    /\ UNCHANGED image_vars

Next ==
    \/ \E p \in Paths, mode \in DirModes, d \in Directories : load_directory(p, mode, d)
    \/ \E f \in FileNames : prepare_documents_step(f)
    \/ load_directory_returns

Spec == Init /\ [][Next]_vars

(***************************************************************************)
(* Properties of the loader                                                *)
(***************************************************************************)

\* The Documents the running (or just ended) load created and the accessors show
Exposed ==
    {c \in created :
        \/ c[1] = TYPE_ARTICLE /\ c[2] \in DOMAIN get_articles
        \/ c[1] = TYPE_MENU /\ c[2] \in DOMAIN get_menus
        \/ c[1] = TYPE_INDEX /\ get_index_page # None /\ get_index_page.filename = c[2]}

\* The entries of the accessors that the running (or just ended) load did not create
Stale ==
    ({<<TYPE_ARTICLE, k>> : k \in DOMAIN get_articles}
     \cup {<<TYPE_MENU, k>> : k \in DOMAIN get_menus}
     \cup (IF get_index_page = None THEN {} ELSE {<<TYPE_INDEX, get_index_page.filename>>}))
    \ created

\* C1: when load_directory has failed, the accessors show no Document that the
\* failed pass created.
C1_FailedLoadExposesNothing == pc = "raised" => Exposed = {}

\* C2: after a load_directory call that follows earlier ones, the article mapping,
\* the menu mapping and the index Document hold only Documents of the latest load.
C2_ReloadReplacesSession == pc = "done" => Stale = {}

\* C3: after a successful load, the menus every article of that load refers to are
\* the loader's menu mapping, and all of them are menus of that same load.
C3_ArticleMenusAreThisLoadsMenus ==
    pc = "done" =>
        \A k \in DOMAIN get_articles :
            <<TYPE_ARTICLE, k>> \in created =>
                LET seen == MenusSeenBy(get_articles[k], get_menus)
                IN /\ DOMAIN seen = DOMAIN get_menus
                   /\ \A m \in DOMAIN seen : <<TYPE_MENU, m>> \in created

\* C10: no file is handed to the parser before its own read and write access has
\* been confirmed, and none before the directory's access has been confirmed.
C10_AccessCheckedBeforeParse ==
    /\ parsed \subseteq access_ok
    /\ parsed # {} => <<get_directory>> \in access_ok

\* The files of the loaded directory that are regular, accessible and parseable
Candidates == {f \in Glob(listing) : listing[f].isfile /\ Access(listing[f]) /\ listing[f].parses}

\* A first load of an accessible directory whose index.html satisfies the index
\* schema and whose files are all accessible, parseable and recognized
ValidFirstLoad ==
    /\ loads = "first"
    /\ pc \in {"done", "raised"}
    /\ Access(dir_mode)
    /\ IndexName \in Candidates
    /\ listing[IndexName].index
    /\ \A f \in Glob(listing) :
          /\ f \in Candidates
          /\ listing[f].article \/ listing[f].menu \/ listing[f].index

GateKindWith(index_file) ==
    IsWhiteBearDirectory(get_directory, dir_mode, [listing EXCEPT ![IndexName] = index_file]).kind

\* load_directory has been called on an accessible directory
AccessibleDirectoryLoad == pc # "idle" /\ Access(dir_mode)

\* index.html of the loaded directory can be read but not parsed
IndexUnparseable ==
    listing[IndexName].present /\ CanOpen(listing[IndexName]) /\ ~listing[IndexName].parses

\* index.html of the loaded directory parses and fails the index schema
IndexFailsSchema ==
    /\ listing[IndexName].present /\ CanOpen(listing[IndexName])
    /\ listing[IndexName].parses /\ ~listing[IndexName].index

UnparseableEnumerated ==
    {f \in enumerated : listing[f].isfile /\ Access(listing[f]) /\ ~listing[f].parses}

\* The enumerated files that parse, match no schema and are not deny-listed
UnrecognizedEnumerated ==
    {f \in enumerated :
        /\ listing[f].isfile /\ Access(listing[f]) /\ listing[f].parses
        /\ ~listing[f].article /\ ~listing[f].menu /\ ~listing[f].index
        /\ ~Contains(f, "google") /\ ~Contains(f, "404")}

StepOn(f) == pc = "loop" /\ f \in todo /\ f \notin enumerated /\ enumerated' = enumerated \cup {f}

\* File f of the loaded directory is regular, accessible and parseable
Parseable(f) == listing[f].isfile /\ Access(listing[f]) /\ listing[f].parses

InRange(value, min, max) == min <= Len(value) /\ Len(value) <= max

\* The message a field is to show: the placeholder message first, then the length message
ExpectedMessage(value, min, max, placeholder, length_message) ==
    IF value = placeholder THEN "seo_error_default_value"
    ELSE IF ~InRange(value, min, max) THEN length_message
    ELSE ""

\* The link title and the alt text are both in range and not their placeholder
BothFieldsOk ==
    /\ InRange(_link_title, article_image_title_min, article_image_title_max)
    /\ _link_title # label_article_image_link_title
    /\ InRange(_image_alt, article_image_alt_min, article_image_alt_max)
    /\ _image_alt # label_article_image_alt

\* C9: right after seo_test_self, whatever an earlier call returned or left behind,
\* the result is True exactly when both fields are in range and not the placeholder,
\* each message is the placeholder message, else the length message, else empty, and
\* the colour is red exactly when the result is False and the null colour otherwise.
C9_SeoTestSelf ==
    tested =>
        /\ result = (IF BothFieldsOk THEN "True" ELSE "False")
        /\ _link_title_error_message =
              ExpectedMessage(_link_title, article_image_title_min, article_image_title_max,
                              label_article_image_link_title, "seo_error_link_title_length")
        /\ _image_alt_error_message =
              ExpectedMessage(_image_alt, article_image_alt_min, article_image_alt_max,
                              label_article_image_alt, "seo_error_image_alt_length")
        /\ _status_color = (IF result = "False" THEN RED ELSE NullColour)

\* A test has passed after an earlier test of other values had failed
C9_Witness ==
    /\ tested
    /\ prev_result = "False"
    /\ result = "True"
    /\ _status_color = NullColour
    /\ _link_title_error_message = ""

====
